---- MODULE Spec2Model ----
(***************************************************************************)
(* OloEQ: the filter-chain engine of a 3-band equalizer plugin.            *)
(*                                                                         *)
(* Three threads touch the state: the audio thread (processBlock), the     *)
(* message thread (timerCallback, paint, setStateInformation,              *)
(* prepareToPlay) and a host thread that changes parameters.  Floating     *)
(* point designs are kept symbolic: a coefficient set is the record of     *)
(* the design request that produced it.                                    *)
(***************************************************************************)
EXTENDS Integers, Sequences, FiniteSets, TLC

\* ------------------------------------------------------------------ bounds
\* widest component painted
MaxWidth == 2

\* ------------------------------------------------------------- data model
\* enum Slope
Slope_12 == 0
Slope_24 == 1
Slope_36 == 2
Slope_48 == 3

\* enum ChainPositions, as names
ChainPositions == {"LowCut", "Peak", "HighCut"}

Stages == 0 .. 3

\* the 9 biquad slots of a MonoChain: CutFilter(4), Filter, CutFilter(4)
Slots == {<<"LowCut", i>> : i \in Stages} \cup {<<"Peak", 0>>}
           \cup {<<"HighCut", i>> : i \in Stages}

\* struct ChainSettings with its default member initialisers
ChainSettings ==
  [peakFreq |-> 0, peakGainInDecibels |-> 0, peakQuality |-> 1,
   lowCutFreq |-> 0, highCutFreq |-> 0,
   lowCutSlope |-> Slope_12, highCutSlope |-> Slope_12]

\* the parameters in the order getChainSettings loads them, with the
\* ChainSettings member each load is assigned to
LoadOrder ==
  << <<"LowCut Freq", "lowCutFreq">>,
     <<"HighCut Freq", "highCutFreq">>,
     <<"Peak Freq", "peakFreq">>,
     <<"Peak Gain", "peakGainInDecibels">>,
     <<"Peak Quality", "peakQuality">>,
     <<"LowCut Slope", "lowCutSlope">>,
     <<"HighCut Slope", "highCutSlope">> >>

ParamIDs == {LoadOrder[k][1] : k \in 1 .. Len(LoadOrder)}

\* createParameterLayout: the default value of each parameter
createParameterLayout ==
  [p \in ParamIDs |->
     CASE p = "LowCut Freq" -> 20
       [] p = "HighCut Freq" -> 20000
       [] p = "Peak Freq" -> 750
       [] p = "Peak Gain" -> 0
       [] p = "Peak Quality" -> 1
       [] p = "LowCut Slope" -> 0
       [] p = "HighCut Slope" -> 0]

\* ------------------------------------------------------ coefficient sets
\* one coefficient set, named by the design that computed it
Coef(kind, sectionOrder, designOrder, index, freq, rate, q, gain) ==
  [kind |-> kind, sectionOrder |-> sectionOrder, designOrder |-> designOrder,
   index |-> index, freq |-> freq, sampleRate |-> rate, q |-> q, gain |-> gain]

\* the coefficients a default-constructed IIR::Filter holds (pass-through)
DefaultCoefficients == Coef("passthrough", 0, 0, 0, 0, 0, 0, 0)

\* what a read past the end of a coefficient array yields
GarbageCoefficients == Coef("garbage", 0, 0, 0, 0, 0, 0, 0)

\* juce::Decibels::decibelsToGain, in thousandths, on the values used here
decibelsToGain(dB) ==
  CASE dB = -24 -> 63
    [] dB = -12 -> 251
    [] dB = 0 -> 1000
    [] dB = 12 -> 3981
    [] dB = 24 -> 15849
    [] OTHER -> 0

\* makePeakFilter: hands its arguments to the peaking design, unguarded
makePeakFilter(settings, rate) ==
  Coef("peak", 2, 2, 0, settings.peakFreq, rate, settings.peakQuality,
       decibelsToGain(settings.peakGainInDecibels))

\* designIIR{Highpass,Lowpass}HighOrderButterworthMethod: an odd order gives one
\* first-order section followed by order/2 second-order sections, an even
\* order gives order/2 second-order sections
designHighOrderButterworthMethod(kind, frequency, rate, order) ==
  IF order % 2 = 1
  THEN [i \in 1 .. (order \div 2) + 1 |->
          Coef(kind, IF i = 1 THEN 1 ELSE 2, order, i - 1, frequency, rate, 0, 0)]
  ELSE [i \in 1 .. (order \div 2) |->
          Coef(kind, 2, order, i - 1, frequency, rate, 0, 0)]

\* an order of one per enabled stage
CutOrder_PerStage(slope) == slope + 1

\* the Butterworth order makeLowCutFilter / makeHighCutFilter ask for
CutOrder(slope) == 2 * slope + 1

makeLowCutFilter(chainSettings, rate) ==
  designHighOrderButterworthMethod("highpass", chainSettings.lowCutFreq, rate,
                                   CutOrder(chainSettings.lowCutSlope))

makeHighCutFilter(chainSettings, rate) ==
  designHighOrderButterworthMethod("lowpass", chainSettings.highCutFreq, rate,
                                   CutOrder(chainSettings.highCutSlope))

\* --------------------------------------------------------------- chains
\* a default-constructed MonoChain: pass-through coefficients, nothing
\* bypassed, every delay line zero.  history is 0 while the delay lines of all
\* nine stages are zero, and otherwise the sample last fed through the chain.
\* object tells which Coefficients object a stage's pointer refers to: "own",
\* the one its filter made for itself, or "factory", one a factory returned
DefaultChain ==
  [coefficients |-> [s \in Slots |-> DefaultCoefficients],
   bypassed |-> [s \in Slots |-> FALSE],
   history |-> 0,
   object |-> [s \in Slots |-> "own"]]

\* a prepare that leaves the delay lines as they are
prepare_KeepsHistory(chain) == chain

\* chain.prepare(spec): every stage of the chain is prepared, which resets its
\* delay line; coefficients and bypass flags are left alone
prepare(chain) == [chain EXCEPT !.history = 0]

\* the sample values a channel of the buffer carries
Samples == {1}

\* chain.process(context) on a channel holding x: the signal runs through the
\* stages that are not bypassed, in chain order; what is written back to the
\* channel depends on x, on those stages' coefficients and on the history
process(chain, x) ==
  [chain |-> [chain EXCEPT !.history = x],
   out |-> [in |-> x, history |-> chain.history,
            stages |-> {<<s, chain.coefficients[s]>> :
                          s \in {t \in Slots : ~chain.bypassed[t]}}]]

\* the statements that change a chain, in the order the code runs them
SetBypassedStmt(chain, pos, index, value) ==
  [op |-> "setBypassed", chain |-> chain, slot |-> <<pos, index>>,
   value |-> value, coef |-> DefaultCoefficients, inRange |-> TRUE,
   rebind |-> FALSE]

\* old = replacements: the stage's pointer is made to refer to the object the
\* factory returned
UpdateCoefficientsStmt_Rebind(chain, pos, index, coefficients) ==
  [op |-> "updateCoefficients", chain |-> chain, slot |-> <<pos, index>>,
   value |-> FALSE,
   coef |-> IF index + 1 \in DOMAIN coefficients
              THEN coefficients[index + 1] ELSE GarbageCoefficients,
   inRange |-> index + 1 \in DOMAIN coefficients,
   rebind |-> TRUE]

\* updateCoefficients: *old = *replacements, a copy of the values into the
\* object the stage's pointer refers to; the pointer itself is not changed
UpdateCoefficientsStmt(chain, pos, index, coefficients) ==
  [op |-> "updateCoefficients", chain |-> chain, slot |-> <<pos, index>>,
   value |-> FALSE,
   coef |-> IF index + 1 \in DOMAIN coefficients
              THEN coefficients[index + 1] ELSE GarbageCoefficients,
   inRange |-> index + 1 \in DOMAIN coefficients,
   rebind |-> FALSE]

\* an update<Index> without its setBypassed<Index>(false)
update_CoefficientsOnly(chain, pos, index, coefficients) ==
  << UpdateCoefficientsStmt(chain, pos, index, coefficients) >>

\* template update<Index>
update(chain, pos, index, coefficients) ==
  << UpdateCoefficientsStmt(chain, pos, index, coefficients),
     SetBypassedStmt(chain, pos, index, FALSE) >>

\* a switch whose cases each end in a break
SwitchStages_NoFallThrough(slope) == {slope}

\* a switch entered at its first case whatever the slope
SwitchStages_FromTop(slope) == Stages

\* the stages the switch of updateCutFilter reaches, falling through
SwitchStages(slope) == {i \in Stages : i <= slope}

\* an updateCutFilter without the four setBypassed(true) it starts with
updateCutFilter_NoBypass(chain, pos, coefficients, slope) ==
  (IF 3 \in SwitchStages(slope) THEN update(chain, pos, 3, coefficients) ELSE << >>)
  \o (IF 2 \in SwitchStages(slope) THEN update(chain, pos, 2, coefficients) ELSE << >>)
  \o (IF 1 \in SwitchStages(slope) THEN update(chain, pos, 1, coefficients) ELSE << >>)
  \o (IF 0 \in SwitchStages(slope) THEN update(chain, pos, 0, coefficients) ELSE << >>)

\* template updateCutFilter
updateCutFilter(chain, pos, coefficients, slope) ==
  << SetBypassedStmt(chain, pos, 0, TRUE), SetBypassedStmt(chain, pos, 1, TRUE),
     SetBypassedStmt(chain, pos, 2, TRUE), SetBypassedStmt(chain, pos, 3, TRUE) >>
  \o (IF 3 \in SwitchStages(slope) THEN update(chain, pos, 3, coefficients) ELSE << >>)
  \o (IF 2 \in SwitchStages(slope) THEN update(chain, pos, 2, coefficients) ELSE << >>)
  \o (IF 1 \in SwitchStages(slope) THEN update(chain, pos, 1, coefficients) ELSE << >>)
  \o (IF 0 \in SwitchStages(slope) THEN update(chain, pos, 0, coefficients) ELSE << >>)

\* the places inside updateCutFilter where another thread is let in: after the
\* four setBypassed(true), when the whole cascade is bypassed, and at its end
CutFilterSteps(chain, pos, coefficients, slope) ==
  LET stmts == updateCutFilter(chain, pos, coefficients, slope)
  IN  << SubSeq(stmts, 1, 4), SubSeq(stmts, 5, Len(stmts)) >>

updateLowCutFilters(settings, rate) ==
  LET lowCutCoefficients == makeLowCutFilter(settings, rate)
  IN  CutFilterSteps("leftChain", "LowCut", lowCutCoefficients, settings.lowCutSlope)
      \o CutFilterSteps("rightChain", "LowCut", lowCutCoefficients, settings.lowCutSlope)

updatePeakFilter(settings, rate) ==
  LET peakCoefficients == << makePeakFilter(settings, rate) >>
  IN  << << UpdateCoefficientsStmt("leftChain", "Peak", 0, peakCoefficients) >>,
         << UpdateCoefficientsStmt("rightChain", "Peak", 0, peakCoefficients) >> >>

updateHighCutFilters(settings, rate) ==
  LET highCutCoefficients == makeHighCutFilter(settings, rate)
  IN  CutFilterSteps("leftChain", "HighCut", highCutCoefficients, settings.highCutSlope)
      \o CutFilterSteps("rightChain", "HighCut", highCutCoefficients, settings.highCutSlope)

\* OloEQAudioProcessor::updateFilters, after its getChainSettings: the steps,
\* each a run of consecutive statements
updateFilters(settings, rate) ==
  updateLowCutFilters(settings, rate)
  \o updatePeakFilter(settings, rate)
  \o updateHighCutFilters(settings, rate)

\* the statements of a sequence of steps, in order
Flatten(steps) ==
  LET flat[i \in 0 .. Len(steps)] ==
        IF i = 0 THEN << >> ELSE flat[i - 1] \o steps[i]
  IN  flat[Len(steps)]

\* the rebuild of monoChain inside timerCallback, after its getChainSettings
timerCallbackRebuild(chainSettings, rate) ==
  << UpdateCoefficientsStmt("monoChain", "Peak", 0,
                            << makePeakFilter(chainSettings, rate) >>) >>
  \o updateCutFilter("monoChain", "LowCut",
                     makeLowCutFilter(chainSettings, rate), chainSettings.lowCutSlope)
  \o updateCutFilter("monoChain", "HighCut",
                     makeHighCutFilter(chainSettings, rate), chainSettings.highCutSlope)

\* one statement applied to chain c, if c is the chain `name` it names
ExecOn(c, name, stmt) ==
  IF stmt.chain # name THEN c
  ELSE IF stmt.op = "setBypassed"
       THEN [c EXCEPT !.bypassed[stmt.slot] = stmt.value]
       ELSE [c EXCEPT !.coefficients[stmt.slot] = stmt.coef,
                      !.object[stmt.slot] = IF stmt.rebind THEN "factory" ELSE @]

\* the statements of stmts that name chain `name`, applied to c in order
ExecAll(c, name, stmts) ==
  LET after[i \in 0 .. Len(stmts)] ==
        IF i = 0 THEN c ELSE ExecOn(after[i - 1], name, stmts[i])
  IN  after[Len(stmts)]

\* ------------------------------------------------------------ inputs
\* the parameter changes the host thread makes
WriteChoices ==
  {<<"LowCut Slope", Slope_12>>, <<"LowCut Slope", Slope_24>>}

\* the data handed to setStateInformation: bytes that decode to no valid
\* tree, or a saved state.  The saved state differs from the store it replaces
\* in the peak gain alone, so that replaceState is a single parameter write.
SavedState(store) == [store EXCEPT !["Peak Gain"] = 12]

TreeChoices == {[valid |-> FALSE], [valid |-> TRUE]}

NoTree == [valid |-> FALSE]

\* the sample rates the host prepares the processor with
SampleRates == {44100}

\* ------------------------------------------------------------- state
VARIABLES
  apvts,              \* the parameter store: raw value of each parameter
  sampleRate,         \* AudioProcessor::getSampleRate()
  prepared,           \* prepareToPlay has completed at least once
  leftChain,          \* OloEQAudioProcessor::leftChain
  rightChain,         \* OloEQAudioProcessor::rightChain
  monoChain,          \* ResponseCurveComponent::monoChain
  parametersChanged,  \* ResponseCurveComponent::parametersChanged
  audio,              \* the audio thread: position in processBlock and its locals
  msg,                \* the message thread: the callback it runs and its locals
                      \* (both keep, while getChainSettings runs, the store
                      \* contents seen since it began that agree with every
                      \* value loaded so far: `instants`)
  host,               \* the host thread changing a parameter
  painted             \* what the last paint did with its magnitude vector

vars == <<apvts, sampleRate, prepared, leftChain, rightChain, monoChain,
          parametersChanged, audio, msg, host, painted>>

\* channels is the channel count of the buffer of the block in progress
AudioIdle ==
  [pc |-> "idle", k |-> 0, settings |-> ChainSettings, instants |-> {},
   channels |-> 0]

MsgIdle == [op |-> "none", pc |-> "idle", k |-> 0, settings |-> ChainSettings,
            instants |-> {}, tree |-> NoTree]

NotPainted ==
  [w |-> -1, size |-> 0, written |-> {}, read |-> {}, outcome |-> "none",
   mags |-> << >>, sampleRate |-> 0]

\* the processor and its editor right after construction
Init ==
  /\ apvts = createParameterLayout
  /\ sampleRate = 0
  /\ prepared = FALSE
  /\ leftChain = DefaultChain
  /\ rightChain = DefaultChain
  /\ monoChain = DefaultChain
  /\ parametersChanged = FALSE
  /\ audio = AudioIdle
  /\ msg = MsgIdle
  /\ host = [pc |-> "idle"]
  /\ painted = NotPainted

\* -------------------------------------------------- getChainSettings
\* the parameters some input of this model writes
Written == {c[1] : c \in WriteChoices} \cup {"Peak Gain"}

\* the loads of parameters nothing writes cannot be told apart from one
\* another by any thread, so a step of getChainSettings is a run of loads that
\* ends with the load of a written parameter, or with the last load
RunEnd(k) ==
  LET ends == {j \in k .. Len(LoadOrder) :
                 LoadOrder[j][1] \in Written \/ j = Len(LoadOrder)}
  IN  CHOOSE j \in ends : \A i \in ends : j <= i

\* the loads of getChainSettings from load t.k to the end of its run, by the
\* thread whose local state is t
LoadStep(t) ==
  LET last == RunEnd(t.k)
      run == t.k .. last
      loaded == [f \in DOMAIN t.settings |->
                   IF \E j \in run : LoadOrder[j][2] = f
                   THEN apvts[LoadOrder[CHOOSE j \in run : LoadOrder[j][2] = f][1]]
                   ELSE t.settings[f]]
      still == {s \in t.instants :
                  \A j \in run : s[LoadOrder[j][1]] = apvts[LoadOrder[j][1]]}
  IN  IF last < Len(LoadOrder)
      THEN [t EXCEPT !.settings = loaded, !.k = last + 1, !.instants = still]
      ELSE [t EXCEPT !.settings = loaded, !.k = 1, !.pc = "install",
                     !.instants = still]

\* a thread entering getChainSettings while the store holds `store`:
\* ChainSettings settings;
EnterGetChainSettings(t, store) ==
  [t EXCEPT !.pc = "load", !.k = 1, !.settings = ChainSettings,
            !.instants = {store}]

\* the store takes the content `store` while thread t may be loading
NoteWrite(t, store) ==
  IF /\ t.pc = "load"
     /\ \A j \in 1 .. t.k - 1 : store[LoadOrder[j][1]] = t.settings[LoadOrder[j][2]]
  THEN [t EXCEPT !.instants = @ \cup {store}]
  ELSE t

\* ------------------------------------------------- host parameter change
\* AudioProcessorParameter::setValueNotifyingHost: the store is written first
HostSetValue ==
  /\ host.pc = "idle"
  /\ \E c \in WriteChoices :
       LET store == [apvts EXCEPT ![c[1]] = c[2]]
       IN  /\ apvts' = store
           /\ audio' = NoteWrite(audio, store)
           /\ msg' = NoteWrite(msg, store)
  /\ host' = [pc |-> "notify"]
  /\ UNCHANGED <<sampleRate, prepared, leftChain, rightChain, monoChain,
                 parametersChanged, painted>>

\* a listener that returns without setting the flag
parameterValueChanged_NoFlag ==
  /\ host.pc = "notify"
  /\ host' = [pc |-> "idle"]
  /\ UNCHANGED <<apvts, sampleRate, prepared, leftChain, rightChain, monoChain,
                 parametersChanged, audio, msg, painted>>

\* ResponseCurveComponent::parameterValueChanged
parameterValueChanged ==
  /\ host.pc = "notify"
  /\ parametersChanged' = TRUE
  /\ host' = [pc |-> "idle"]
  /\ UNCHANGED <<apvts, sampleRate, prepared, leftChain, rightChain, monoChain,
                 audio, msg, painted>>

\* ------------------------------------------------------- timerCallback
TimerFires ==
  /\ msg.op = "none"
  /\ msg' = [msg EXCEPT !.op = "timer", !.pc = "cas"]
  /\ UNCHANGED <<apvts, sampleRate, prepared, leftChain, rightChain, monoChain,
                 parametersChanged, audio, host, painted>>

\* a tick that tests the flag and leaves it set
TimerCompareAndSet_NoClear ==
  /\ msg.op = "timer" /\ msg.pc = "cas"
  /\ parametersChanged' = parametersChanged
  /\ msg' = IF parametersChanged THEN EnterGetChainSettings(msg, apvts) ELSE MsgIdle
  /\ UNCHANGED <<apvts, sampleRate, prepared, leftChain, rightChain, monoChain,
                 audio, host, painted>>

\* parametersChanged.compareAndSetBool(false, true)
TimerCompareAndSet ==
  /\ msg.op = "timer" /\ msg.pc = "cas"
  /\ IF parametersChanged
     THEN /\ parametersChanged' = FALSE
          /\ msg' = EnterGetChainSettings(msg, apvts)
     ELSE /\ parametersChanged' = parametersChanged
          /\ msg' = MsgIdle
  /\ UNCHANGED <<apvts, sampleRate, prepared, leftChain, rightChain, monoChain,
                 audio, host, painted>>

\* a load of getChainSettings on the message thread
MsgLoad ==
  /\ msg.pc = "load"
  /\ msg' = LoadStep(msg)
  /\ UNCHANGED <<apvts, sampleRate, prepared, leftChain, rightChain, monoChain,
                 parametersChanged, audio, host, painted>>

\* the rest of timerCallback: monoChain is private to the message thread
TimerRebuild ==
  /\ msg.op = "timer" /\ msg.pc = "install"
  /\ \E stmts \in {timerCallbackRebuild(msg.settings, sampleRate)} :
       monoChain' = ExecAll(monoChain, "monoChain", stmts)
  /\ msg' = MsgIdle
  /\ UNCHANGED <<apvts, sampleRate, prepared, leftChain, rightChain,
                 parametersChanged, audio, host, painted>>

\* --------------------------------------------------------------- paint
\* the nine stages in the order the loop of paint tests them
ResponseStages ==
  << <<"Peak", 0>>,
     <<"LowCut", 0>>, <<"LowCut", 1>>, <<"LowCut", 2>>, <<"LowCut", 3>>,
     <<"HighCut", 0>>, <<"HighCut", 1>>, <<"HighCut", 2>>, <<"HighCut", 3>> >>

\* a loop that multiplies in all nine stages, bypassed or not
magnitudeFactors_AllStages(chain) ==
  [k \in DOMAIN ResponseStages |->
     [tested |-> ResponseStages[k], read |-> ResponseStages[k]]]

\* the body of the loop for one pixel: mag starts at 1 and, for each stage
\* whose isBypassed is false, is multiplied by getMagnitudeForFrequency of the
\* coefficients of that same stage.  The factors, in order: the stage whose
\* flag was tested and the stage whose coefficients were read
magnitudeFactors(chain) ==
  LET enabled == SelectSeq(ResponseStages, LAMBDA s : ~chain.bypassed[s])
  IN  [k \in DOMAIN enabled |-> [tested |-> enabled[k], read |-> enabled[k]]]

\* ResponseCurveComponent::paint for a component w pixels wide: the vector
\* mags(w, 1.0f), the loop that fills it, then mags.front() and mags[1..]
\* read to build the path.  front() of an empty vector is undefined.
\* mags[i] lists the factors multiplied into pixel i's magnitude, and
\* sampleRate is the value of audioProcessor.getSampleRate() that every
\* getMagnitudeForFrequency call of this paint is given.
paint(chain, w, outcome) ==
  LET size == IF w > 0 THEN w ELSE 0
      read == {0} \cup (1 .. size - 1)
  IN  [w |-> w, size |-> size,
       written |-> 0 .. w - 1,
       read |-> read,
       outcome |-> IF \A i \in read : i < size THEN "drawn" ELSE outcome,
       mags |-> [i \in 0 .. w - 1 |-> magnitudeFactors(chain)],
       sampleRate |-> sampleRate]

\* a paint that finds the response by running a sample through monoChain
Paint_ThroughFilter ==
  /\ msg.op = "none"
  /\ \E w \in 0 .. MaxWidth, outcome \in {"garbage", "crash"} :
       painted' = paint(monoChain, w, outcome)
  /\ \E x \in Samples : monoChain' = process(monoChain, x).chain
  /\ UNCHANGED <<apvts, sampleRate, prepared, leftChain, rightChain,
                 parametersChanged, audio, msg, host>>

Paint ==
  /\ msg.op = "none"
  /\ \E w \in 0 .. MaxWidth, outcome \in {"garbage", "crash"} :
       painted' = paint(monoChain, w, outcome)
  /\ UNCHANGED <<apvts, sampleRate, prepared, leftChain, rightChain, monoChain,
                 parametersChanged, audio, msg, host>>

\* ------------------------------------------------- a step of
\* updateFilters: leftChain and rightChain are written by whichever thread
\* runs it; t is that thread's local state, steps its updateFilters
InstallStep(t, steps) ==
  /\ leftChain' = ExecAll(leftChain, "leftChain", steps[t.k])
  /\ rightChain' = ExecAll(rightChain, "rightChain", steps[t.k])

\* ------------------------------------------------- setStateInformation
SetStateInformation ==
  /\ msg.op = "none"
  /\ \E tree \in TreeChoices :
       msg' = [msg EXCEPT !.op = "setState", !.pc = "read", !.tree = tree]
  /\ UNCHANGED <<apvts, sampleRate, prepared, leftChain, rightChain, monoChain,
                 parametersChanged, audio, host, painted>>

\* if (tree.isValid()) apvts.replaceState(tree): every parameter whose value
\* differs is set and its listeners are told
SetStateReplace ==
  /\ msg.op = "setState" /\ msg.pc = "read"
  /\ IF msg.tree.valid
     THEN /\ apvts' = SavedState(apvts)
          /\ parametersChanged' = (parametersChanged \/ apvts # SavedState(apvts))
          /\ msg' = EnterGetChainSettings(msg, SavedState(apvts))
          /\ audio' = NoteWrite(audio, SavedState(apvts))
     ELSE /\ msg' = MsgIdle
          /\ UNCHANGED <<apvts, parametersChanged, audio>>
  /\ UNCHANGED <<sampleRate, prepared, leftChain, rightChain, monoChain,
                 host, painted>>

\* ------------------------------------------------------- prepareToPlay
\* getChainSettings with its seven loads taken from one store content
getChainSettings(store) ==
  [f \in DOMAIN ChainSettings |->
     LET k == CHOOSE j \in 1 .. Len(LoadOrder) : LoadOrder[j][2] = f
     IN  store[LoadOrder[k][1]]]

\* the host sets the rate and calls prepareToPlay while no block is being
\* processed and no other callback of the processor runs; prepare() resets
\* the delay lines and leaves the coefficients alone, updateFilters installs
\* them
PrepareToPlayAt(rates) ==
  /\ msg.op = "none"
  /\ audio.pc = "idle"
  /\ host.pc = "idle"
  /\ \E rate \in rates :
       \E stmts \in {Flatten(updateFilters(getChainSettings(apvts), rate))} :
         /\ sampleRate' = rate
         /\ leftChain' = ExecAll(prepare(leftChain), "leftChain", stmts)
         /\ rightChain' = ExecAll(prepare(rightChain), "rightChain", stmts)
  /\ prepared' = TRUE
  /\ UNCHANGED <<apvts, monoChain, parametersChanged, audio, msg, host, painted>>

PrepareToPlay == PrepareToPlayAt(SampleRates)

\* the host restarts the stream at another rate
ResampleRates == {32000}

PrepareToPlayResampled == PrepareToPlayAt(ResampleRates)

\* a step of the updateFilters that setStateInformation runs
MsgInstall ==
  /\ msg.op = "setState" /\ msg.pc = "install"
  /\ \E steps \in {updateFilters(msg.settings, sampleRate)} :
       /\ InstallStep(msg, steps)
       /\ msg' = IF msg.k = Len(steps) THEN MsgIdle
                 ELSE [msg EXCEPT !.k = msg.k + 1, !.instants = {}]
  /\ UNCHANGED <<apvts, sampleRate, prepared, monoChain, parametersChanged, audio,
                 host, painted>>

\* ---------------------------------------------------------- bus layouts
\* the channel sets a host may propose, with their channel counts
ChannelSetSize == [disabled |-> 0, mono |-> 1, stereo |-> 2, quadraphonic |-> 4]

\* the layouts a host may propose: a main input and a main output set
BusesLayouts == [mainIn : DOMAIN ChannelSetSize, mainOut : DOMAIN ChannelSetSize]

\* OloEQAudioProcessor::isBusesLayoutSupported (an effect, not a synth)
isBusesLayoutSupported(layouts) ==
  IF layouts.mainOut # "mono" /\ layouts.mainOut # "stereo" THEN FALSE
  ELSE IF layouts.mainOut # layouts.mainIn THEN FALSE
  ELSE TRUE

StereoLayout == [mainIn |-> "stereo", mainOut |-> "stereo"]

MonoLayout == [mainIn |-> "mono", mainOut |-> "mono"]

\* the channel count of the buffer processBlock is handed under a layout: the
\* larger of the input and output channel counts
BufferChannels(layouts) ==
  IF ChannelSetSize[layouts.mainIn] > ChannelSetSize[layouts.mainOut]
  THEN ChannelSetSize[layouts.mainIn] ELSE ChannelSetSize[layouts.mainOut]

\* the channel indices processBlock takes single-channel blocks of
ChannelsTaken == {0, 1}

\* what lies past the end of the buffer's channel array
StraySamples == {-1}

\* -------------------------------------------------------- processBlock
\* the host calls processBlock under a layout isBusesLayoutSupported accepted
ProcessBlockIn(layouts) ==
  /\ isBusesLayoutSupported(layouts)
  /\ audio.pc = "idle"
  /\ prepared
  /\ audio' = [EnterGetChainSettings(audio, apvts)
                 EXCEPT !.channels = BufferChannels(layouts)]
  /\ UNCHANGED <<apvts, sampleRate, prepared, leftChain, rightChain, monoChain,
                 parametersChanged, msg, host, painted>>

ProcessBlock == ProcessBlockIn(StereoLayout)

ProcessBlockMono == ProcessBlockIn(MonoLayout)

AudioLoad ==
  /\ audio.pc = "load"
  /\ audio' = LoadStep(audio)
  /\ UNCHANGED <<apvts, sampleRate, prepared, leftChain, rightChain, monoChain,
                 parametersChanged, msg, host, painted>>

AudioInstall ==
  /\ audio.pc = "install"
  /\ \E steps \in {updateFilters(audio.settings, sampleRate)} :
       /\ InstallStep(audio, steps)
       /\ audio' = IF audio.k = Len(steps)
                   THEN [audio EXCEPT !.pc = "processLeft", !.k = 0, !.instants = {}]
                   ELSE [audio EXCEPT !.k = audio.k + 1, !.instants = {}]
  /\ UNCHANGED <<apvts, sampleRate, prepared, monoChain, parametersChanged, msg,
                 host, painted>>

\* leftChain.process(leftContext)
ProcessLeft ==
  /\ audio.pc = "processLeft"
  /\ \E x \in Samples : leftChain' = process(leftChain, x).chain
  /\ audio' = [audio EXCEPT !.pc = "processRight"]
  /\ UNCHANGED <<apvts, sampleRate, prepared, rightChain, monoChain,
                 parametersChanged, msg, host, painted>>

\* rightChain.process handed the left chain
ProcessRight_ThroughLeft ==
  /\ audio.pc = "processRight"
  /\ \E x \in Samples : leftChain' = process(leftChain, x).chain
  /\ audio' = AudioIdle
  /\ UNCHANGED <<apvts, sampleRate, prepared, rightChain, monoChain,
                 parametersChanged, msg, host, painted>>

\* rightChain.process(rightContext).  rightContext is the single-channel
\* block of channel 1; when the buffer has no channel 1 the block refers to
\* whatever follows the channel array, which is undefined: the call may fault
\* or run the chain over stray memory
ProcessRight ==
  /\ audio.pc = "processRight"
  /\ IF 1 < audio.channels
     THEN /\ \E x \in Samples : rightChain' = process(rightChain, x).chain
          /\ audio' = AudioIdle
     ELSE \/ /\ \E x \in Samples \cup StraySamples :
                  rightChain' = process(rightChain, x).chain
             /\ audio' = AudioIdle
          \/ /\ rightChain' = rightChain
             /\ audio' = [audio EXCEPT !.pc = "fault"]
  /\ UNCHANGED <<apvts, sampleRate, prepared, leftChain, monoChain,
                 parametersChanged, msg, host, painted>>

\* ------------------------------------------------------- specification
\* everything the host, the editor and the audio device can do
Next ==
  \/ HostSetValue
  \/ parameterValueChanged
  \/ TimerFires
  \/ TimerCompareAndSet
  \/ MsgLoad
  \/ TimerRebuild
  \/ Paint
  \/ SetStateInformation
  \/ SetStateReplace
  \/ PrepareToPlay
  \/ MsgInstall
  \/ ProcessBlock
  \/ AudioLoad
  \/ AudioInstall
  \/ ProcessLeft
  \/ ProcessRight

Spec == Init /\ [][Next]_vars

\* the processor alone: playback, parameter changes and state restores
NextAudio ==
  \/ HostSetValue
  \/ parameterValueChanged
  \/ SetStateInformation
  \/ SetStateReplace
  \/ PrepareToPlay
  \/ MsgLoad
  \/ MsgInstall
  \/ ProcessBlock
  \/ AudioLoad
  \/ AudioInstall
  \/ ProcessLeft
  \/ ProcessRight

SpecAudio == Init /\ [][NextAudio]_vars

\* the editor while no audio is processed
NextEditor ==
  \/ HostSetValue
  \/ parameterValueChanged
  \/ TimerFires
  \/ TimerCompareAndSet
  \/ MsgLoad
  \/ TimerRebuild
  \/ Paint
  \/ PrepareToPlay

SpecEditor == Init /\ [][NextEditor]_vars

\* playback with the editor open: the timer and the audio callback both run
NextPlayback ==
  \/ HostSetValue
  \/ parameterValueChanged
  \/ TimerFires
  \/ TimerCompareAndSet
  \/ MsgLoad
  \/ TimerRebuild
  \/ PrepareToPlay
  \/ ProcessBlock
  \/ AudioLoad
  \/ AudioInstall
  \/ ProcessLeft
  \/ ProcessRight

SpecPlayback == Init /\ [][NextPlayback]_vars

\* the processor under a host that changes parameters and restarts the stream
\* at another rate; no editor is open and no state is restored
NextStream ==
  \/ HostSetValue
  \/ parameterValueChanged
  \/ PrepareToPlay
  \/ PrepareToPlayResampled
  \/ ProcessBlock
  \/ AudioLoad
  \/ AudioInstall
  \/ ProcessLeft
  \/ ProcessRight

SpecStream == Init /\ [][NextStream]_vars



\* the processor under a host that runs it with the mono layout
NextMono ==
  \/ HostSetValue
  \/ parameterValueChanged
  \/ PrepareToPlay
  \/ ProcessBlockMono
  \/ AudioLoad
  \/ AudioInstall
  \/ ProcessLeft
  \/ ProcessRight

SpecMono == Init /\ [][NextMono]_vars


\* the processor once the host has prepared it, the editor just opened
InitPlaying ==
  /\ apvts = createParameterLayout
  /\ sampleRate \in SampleRates
  /\ prepared = TRUE
  /\ \E stmts \in {Flatten(updateFilters(getChainSettings(apvts), sampleRate))} :
       /\ leftChain = ExecAll(DefaultChain, "leftChain", stmts)
       /\ rightChain = ExecAll(DefaultChain, "rightChain", stmts)
  /\ monoChain = DefaultChain
  /\ parametersChanged = FALSE
  /\ audio = AudioIdle
  /\ msg = MsgIdle
  /\ host = [pc |-> "idle"]
  /\ painted = NotPainted

\* playback at one sample rate
NextPlaying ==
  \/ HostSetValue
  \/ parameterValueChanged
  \/ TimerFires
  \/ TimerCompareAndSet
  \/ MsgLoad
  \/ TimerRebuild
  \/ ProcessBlock
  \/ AudioLoad
  \/ AudioInstall
  \/ ProcessLeft
  \/ ProcessRight

\* the editor open during playback at one sample rate: parameter changes, the
\* timer, paint and processBlock in any interleaving
NextFrames ==
  \/ HostSetValue
  \/ parameterValueChanged
  \/ TimerFires
  \/ TimerCompareAndSet
  \/ MsgLoad
  \/ TimerRebuild
  \/ Paint
  \/ ProcessBlock
  \/ AudioLoad
  \/ AudioInstall
  \/ ProcessLeft
  \/ ProcessRight

SpecFrames == InitPlaying /\ [][NextFrames]_vars

\* the editor open while the host restarts the stream at one rate or another:
\* parameter changes, the timer, paint and prepareToPlay in any interleaving
NextRestart ==
  \/ HostSetValue
  \/ parameterValueChanged
  \/ TimerFires
  \/ TimerCompareAndSet
  \/ MsgLoad
  \/ TimerRebuild
  \/ Paint
  \/ PrepareToPlay
  \/ PrepareToPlayResampled

SpecRestart == InitPlaying /\ [][NextRestart]_vars

\* the 60 Hz timer keeps firing and its callback runs to its end; the audio
\* device keeps calling processBlock, which runs to its end.  The host is
\* under no obligation to change a parameter or to finish notifying.
FairPlayback ==
  /\ InitPlaying /\ [][NextPlaying]_vars
  /\ WF_vars(TimerFires) /\ WF_vars(TimerCompareAndSet)
  /\ WF_vars(MsgLoad) /\ WF_vars(TimerRebuild)
  /\ WF_vars(ProcessBlock) /\ WF_vars(AudioLoad) /\ WF_vars(AudioInstall)
  /\ WF_vars(ProcessLeft) /\ WF_vars(ProcessRight)

\* ------------------------------------------------ updateCutFilter alone
\* updateCutFilter(c.get<pos>(), coefficients, slope) on chain c, with the
\* coefficients its callers design for that slope from the store at the
\* current rate
cutFilterCall(c, pos, slope) ==
  LET settings == getChainSettings(apvts)
      coefficients ==
        IF pos = "LowCut"
        THEN makeLowCutFilter([settings EXCEPT !.lowCutSlope = slope], sampleRate)
        ELSE makeHighCutFilter([settings EXCEPT !.highCutSlope = slope], sampleRate)
  IN  ExecAll(c, "monoChain", updateCutFilter("monoChain", pos, coefficients, slope))

\* the bypass states a cascade can be handed in: any of the sixteen
CascadeFlags ==
  {[slot \in Slots |-> slot[1] = "LowCut" /\ slot[2] \in on] : on \in SUBSET Stages}

InitCascade ==
  /\ apvts = createParameterLayout
  /\ sampleRate \in SampleRates
  /\ prepared = TRUE
  /\ leftChain = DefaultChain
  /\ rightChain = DefaultChain
  /\ monoChain \in {[DefaultChain EXCEPT !.bypassed = flags] : flags \in CascadeFlags}
  /\ parametersChanged = FALSE
  /\ audio = AudioIdle
  /\ msg = MsgIdle
  /\ host = [pc |-> "idle"]
  /\ painted = NotPainted

\* one call of updateCutFilter, for either cascade and any slope
UpdateCutFilterCall ==
  /\ \E pos \in {"LowCut", "HighCut"}, slope \in {Slope_12, Slope_24, Slope_36, Slope_48} :
       monoChain' = cutFilterCall(monoChain, pos, slope)
  /\ UNCHANGED <<apvts, sampleRate, prepared, leftChain, rightChain,
                 parametersChanged, audio, msg, host, painted>>

SpecCascade == InitCascade /\ [][UpdateCutFilterCall]_vars


\* ------------------------------------------------------------ readings
\* the stages of a cascade that are not bypassed
EnabledStages(c, pos) == {i \in Stages : ~c.bypassed[<<pos, i>>]}

\* the slots an installation of `settings` enables
ExpectedSlots(settings) ==
  {<<"Peak", 0>>}
    \cup {<<"LowCut", i>> : i \in {j \in Stages : j <= settings.lowCutSlope}}
    \cup {<<"HighCut", i>> : i \in {j \in Stages : j <= settings.highCutSlope}}

\* the coefficient set the designs for `settings` at `rate` hold for a slot
DesignedFor(settings, rate, slot) ==
  LET coefficients ==
        CASE slot[1] = "Peak" -> << makePeakFilter(settings, rate) >>
          [] slot[1] = "LowCut" -> makeLowCutFilter(settings, rate)
          [] slot[1] = "HighCut" -> makeHighCutFilter(settings, rate)
  IN  IF slot[2] + 1 \in DOMAIN coefficients
      THEN coefficients[slot[2] + 1] ELSE GarbageCoefficients

\* chain c is what one installation of `settings` at `rate` leaves: the slots
\* it enables hold its designs, every other cascade slot is bypassed
InstalledFrom(c, settings, rate) ==
  \A slot \in Slots :
    IF slot \in ExpectedSlots(settings)
    THEN ~c.bypassed[slot] /\ c.coefficients[slot] = DesignedFor(settings, rate, slot)
    ELSE c.bypassed[slot]

\* the stores and the snapshots the inputs of this model can produce, torn
\* snapshots included
Stores ==
  {[createParameterLayout EXCEPT !["LowCut Slope"] = ls, !["Peak Gain"] = g] :
     ls \in {c[2] : c \in WriteChoices},
     g \in {createParameterLayout["Peak Gain"],
           SavedState(createParameterLayout)["Peak Gain"]}}

Rates == {0} \cup SampleRates

\* chain c holds one installation, of whatever snapshot
Consistent(c) ==
  \E store \in Stores, rate \in Rates : InstalledFrom(c, getChainSettings(store), rate)

\* the slope the cascade was last installed for, read off its first stage,
\* or the stored parameter while it still holds the constructor's coefficients
InstalledSlope(c, pos, param) ==
  LET first == c.coefficients[<<pos, 0>>]
  IN  IF first.kind = "passthrough" THEN apvts[param]
      ELSE CHOOSE s \in Stages : CutOrder(s) = first.designOrder

\* a thread is inside updateFilters (its getChainSettings included)
AudioInUpdateFilters == audio.pc \in {"load", "install"}
MsgInUpdateFilters == msg.op = "setState" /\ msg.pc \in {"load", "install"}

\* ------------------------------------------------------------------ C2
\* C2 (as claimed): whenever process runs on leftChain or rightChain, or paint
\* on monoChain, the chain holds one whole installation: never a mix of two
\* snapshots, never the all-bypassed state inside updateCutFilter.
C2_NeverPartial ==
  /\ audio.pc = "processLeft" => Consistent(leftChain)
  /\ audio.pc = "processRight" => Consistent(rightChain)
  /\ (painted.w >= 0 /\ msg.op = "none") =>
       (Consistent(monoChain) \/ monoChain = DefaultChain)

\* ------------------------------------------------------------------ C3
\* C3 (as claimed): the updateFilters run by processBlock never overlaps in
\* time with the one run by setStateInformation (prepareToPlay runs alone).
C3_NoOverlap == ~(AudioInUpdateFilters /\ MsgInUpdateFilters)

\* ------------------------------------------------------------------ C4
\* C4 (as claimed): a complete ChainSettings returned by getChainSettings
\* equals the content the store had at some instant while it was being read.
C4_SnapshotIsInstant ==
  /\ (audio.pc = "install" /\ audio.k = 1) => audio.instants # {}
  /\ (msg.pc = "install" /\ msg.k = 1) => msg.instants # {}

\* ------------------------------------------------------------------ C5
\* C5 (as claimed): in every state, of every chain, each cut cascade has
\* exactly (slope + 1) stages that are not bypassed, for the slope last
\* installed or, before any installation, the stored one.
C5_StageCountAlways ==
  \A c \in {leftChain, rightChain, monoChain} :
    /\ Cardinality(EnabledStages(c, "LowCut"))
         = InstalledSlope(c, "LowCut", "LowCut Slope") + 1
    /\ Cardinality(EnabledStages(c, "HighCut"))
         = InstalledSlope(c, "HighCut", "HighCut Slope") + 1

\* ------------------------------------------------------------------ C8
\* C8 (as claimed): for the snapshot a thread is installing, the Butterworth
\* designs are asked for order 2 * (slope + 1), and every section they
\* return is a second-order section.
C8_OrderTwiceStages ==
  \A t \in {audio, msg} :
    t.pc = "install" =>
      /\ CutOrder(t.settings.lowCutSlope) = 2 * (t.settings.lowCutSlope + 1)
      /\ CutOrder(t.settings.highCutSlope) = 2 * (t.settings.highCutSlope + 1)
      /\ \A i \in DOMAIN makeLowCutFilter(t.settings, sampleRate) :
           makeLowCutFilter(t.settings, sampleRate)[i].sectionOrder = 2
      /\ \A i \in DOMAIN makeHighCutFilter(t.settings, sampleRate) :
           makeHighCutFilter(t.settings, sampleRate)[i].sectionOrder = 2

\* ------------------------------------------------------------------ C9
\* C9 (as claimed): a paint of a component 0 pixels wide reads no element of
\* its empty magnitude vector and draws without error.
C9_ZeroWidthReadsNothing ==
  painted.w = 0 => (painted.size = 0 /\ painted.read = {} /\ painted.outcome = "drawn")

\* ----------------------------------------------------------------- C10
\* C10 (as claimed): a peak coefficient set made for a sample rate <= 0 is
\* the neutral one, never the peaking design evaluated at that rate.
C10_NeutralAtZeroRate ==
  \A c \in {leftChain, rightChain, monoChain} :
    c.coefficients[<<"Peak", 0>>].sampleRate <= 0
      => c.coefficients[<<"Peak", 0>>].kind = "passthrough"

\* ------------------------------------------------------------------ C6
\* the coefficient sets a design for `settings` at `rate` returns for a band
DesignsOf(settings, rate, pos) ==
  LET coefficients ==
        CASE pos = "Peak" -> << makePeakFilter(settings, rate) >>
          [] pos = "LowCut" -> makeLowCutFilter(settings, rate)
          [] pos = "HighCut" -> makeHighCutFilter(settings, rate)
  IN  {coefficients[i] : i \in DOMAIN coefficients}

\* the slots whose coefficients differ between chain c and chain d
Rewritten(c, d) == {slot \in Slots : c.coefficients[slot] # d.coefficients[slot]}

\* C6 (as claimed): when an installation has completed, all 9 slots of the
\* chain hold coefficient sets computed by that installation from its snapshot.
C6_AllNineWritten ==
  /\ audio.pc \in {"processLeft", "processRight"} =>
       \A slot \in Slots :
         /\ leftChain.coefficients[slot] \in DesignsOf(audio.settings, sampleRate, slot[1])
         /\ rightChain.coefficients[slot] \in DesignsOf(audio.settings, sampleRate, slot[1])
  /\ (msg.op = "none" /\ monoChain # DefaultChain) =>
       \A slot \in Slots : monoChain.coefficients[slot].kind # "passthrough"

\* C6 (amended): an installation writes newly computed coefficients into the
\* peak slot and into the first (slope + 1) slots of each cascade, and sets the
\* bypass flags of all 8 cascade stages; it rewrites no other slot.  So when
\* updateFilters has completed both audio chains are what its snapshot
\* installs, and a rebuild of monoChain leaves what its snapshot installs.
C6_WritesEnabledSlots ==
  /\ [](audio.pc \in {"processLeft", "processRight"} =>
          /\ InstalledFrom(leftChain, audio.settings, sampleRate)
          /\ InstalledFrom(rightChain, audio.settings, sampleRate))
  /\ [][/\ (msg.op = "timer" /\ msg.pc = "install" /\ msg'.pc # "install") =>
             /\ InstalledFrom(monoChain', msg.settings, sampleRate)
             /\ Rewritten(monoChain, monoChain') \subseteq ExpectedSlots(msg.settings)
        /\ audio.pc = "install" =>
             /\ Rewritten(leftChain, leftChain') \subseteq ExpectedSlots(audio.settings)
             /\ Rewritten(rightChain, rightChain') \subseteq ExpectedSlots(audio.settings)
        /\ audio.pc = "idle" =>
             /\ Rewritten(leftChain, leftChain')
                  \subseteq ExpectedSlots(getChainSettings(apvts))
             /\ Rewritten(rightChain, rightChain')
                  \subseteq ExpectedSlots(getChainSettings(apvts))
        /\ audio.pc \notin {"install", "idle"} =>
             /\ Rewritten(leftChain, leftChain') = {}
             /\ Rewritten(rightChain, rightChain') = {}
             /\ leftChain'.bypassed = leftChain.bypassed
             /\ rightChain'.bypassed = rightChain.bypassed]_vars

\* an installation for the steeper slope has completed on the audio chains and
\* the editor has rebuilt its chain
C6_Witness ==
  /\ audio.pc = "processLeft"
  /\ audio.settings.lowCutSlope = Slope_24
  /\ InstalledFrom(leftChain, audio.settings, sampleRate)
  /\ leftChain.coefficients[<<"LowCut", 3>>] = DefaultCoefficients
  /\ monoChain # DefaultChain

\* ------------------------------------------------------------------ C7
\* C7 (as claimed): a processBlock reads a snapshot and installs only when it
\* found the dirty flag set, and clears the flag in the step that tested it.
C7_BlockTestsFlag ==
  [][(audio.pc = "idle" /\ audio'.pc = "load") =>
        (parametersChanged /\ ~parametersChanged')]_vars

\* C7 (amended): timerCallback tests and clears the dirty flag in one atomic
\* step; a tick that finds it set goes on to read a snapshot and rebuild
\* monoChain, a tick that finds it clear ends having read nothing and changed
\* nothing, and monoChain changes in no other step.  processBlock never looks
\* at the flag: every block reads a snapshot and installs it.
C7_TimerTestsFlag ==
  [][/\ (msg.op = "timer" /\ msg.pc = "cas" /\ msg' # msg) =>
          /\ monoChain' = monoChain
          /\ ~parametersChanged'
          /\ IF parametersChanged
             THEN msg'.op = "timer" /\ msg'.pc = "load" /\ msg'.k = 1
             ELSE msg' = MsgIdle
     /\ (msg.op = "timer" /\ msg.pc = "load") =>
          (msg'.op = "timer" /\ msg'.pc \in {"load", "install"})
     /\ monoChain' # monoChain => (msg.op = "timer" /\ msg.pc = "install")
     /\ (msg.op = "timer" /\ msg.pc = "install" /\ msg' # msg) =>
          (msg' = MsgIdle /\ InstalledFrom(monoChain', msg.settings, sampleRate))
     /\ (audio.pc = "idle" /\ audio' # audio) =>
          (audio'.pc = "load" /\ parametersChanged' = parametersChanged)
     /\ (audio.pc = "load" /\ audio'.pc # "load") => audio'.pc = "install"]_vars

\* a tick that finds the flag clear, after an earlier tick has rebuilt the
\* chain, while a block that found the flag clear is installing
C7_Witness ==
  /\ msg.op = "timer" /\ msg.pc = "cas"
  /\ ~parametersChanged
  /\ monoChain # DefaultChain
  /\ audio.pc = "install"

\* ------------------------------------------------------------------ C1
\* the chain is what the present content of the store installs, at the rate
\* of one of its rebuilds
Reflects(c, store) ==
  \E rate \in Rates : InstalledFrom(c, getChainSettings(store), rate)

BelowNyquist(settings, rate) ==
  \A f \in {settings.lowCutFreq, settings.peakFreq, settings.highCutFreq} :
    0 < f /\ 2 * f < rate

\* C11 (as claimed): whenever updateFilters calls the coefficient factories,
\* the frequencies f of its snapshot and the sample rate fs satisfy
\* 0 < f < fs / 2, and every coefficient set a chain holds was designed so.
C11_BelowNyquist ==
  /\ \A t \in {audio, msg} :
       t.pc = "install" => BelowNyquist(t.settings, sampleRate)
  /\ \A c \in {leftChain, rightChain, monoChain} :
       \A slot \in Slots :
         c.coefficients[slot].kind \notin {"passthrough", "garbage"}
           => /\ 0 < c.coefficients[slot].freq
              /\ 2 * c.coefficients[slot].freq < c.coefficients[slot].sampleRate


\* ----------------------------------------------------------------- C12
\* the heap objects a factory call creates: Coefficients is
\* Filter::CoefficientsPtr, a reference-counted pointer, and every factory
\* returns freshly made objects, one per coefficient set
HeapObjects(coefficients) == Len(coefficients)

\* the heap objects created as each step of updateFilters starts: the three
\* update functions call their factory first, then write both chains
updateFiltersAllocations(settings, rate) ==
  LET none(steps) == [i \in 1 .. Len(steps) |-> 0]
      first(steps, n) == [i \in 1 .. Len(steps) |-> IF i = 1 THEN n ELSE 0]
  IN  first(updateLowCutFilters(settings, rate),
            HeapObjects(makeLowCutFilter(settings, rate)))
      \o first(updatePeakFilter(settings, rate),
               HeapObjects(<< makePeakFilter(settings, rate) >>))
      \o first(updateHighCutFilters(settings, rate),
               HeapObjects(makeHighCutFilter(settings, rate)))

\* C12 (as claimed): no step of processBlock, the updateFilters call it makes
\* on every block included, allocates heap memory.
C12_NoAllocation ==
  audio.pc = "install"
    => updateFiltersAllocations(audio.settings, sampleRate)[audio.k] = 0


\* ----------------------------------------------------------------- C13
\* the largest sample value of the buffers compared
MaxSample == 2

\* the two process calls of processBlock on a buffer <<channel 0, channel 1>>:
\* the chains afterwards and what the channels hold afterwards
processChannels(left, right, buffer) ==
  LET leftContext == process(left, buffer[1])
      rightContext == process(right, buffer[2])
  IN  [leftChain |-> leftContext.chain, rightChain |-> rightContext.chain,
       buffer |-> << leftContext.out, rightContext.out >>]

PrepareToPlayStep ==
  /\ audio.pc = "idle" /\ audio'.pc = "idle"
  /\ <<leftChain, rightChain, sampleRate, prepared>>'
       # <<leftChain, rightChain, sampleRate, prepared>>

\* C14 (as claimed): after every prepareToPlay, a change of sample rate
\* mid-stream included, the delay lines of all 9 stages of both chains are
\* zero and the coefficients of all 9 stages have been recomputed from the
\* current parameter store with the new sample rate.
C14_AllNineRecomputed ==
  [][PrepareToPlayStep =>
       \A c \in {leftChain', rightChain'} :
         /\ c.history = 0
         /\ \A slot \in Slots :
              c.coefficients[slot]
                = DesignedFor(getChainSettings(apvts), sampleRate', slot)]_vars

\* C14 (amended): after every prepareToPlay, a change of sample rate
\* mid-stream included, the delay lines of all 9 stages of both chains are
\* zero, and the peak stage and every cut stage the stored slopes enable hold
\* coefficients computed from the current parameter store with the new
\* sample rate, every other cut stage being bypassed; the delay lines stay
\* zero until a process call runs, and every stage a process call runs
\* through holds coefficients designed for the current sample rate.
C14_ResetAndRecomputed ==
  /\ [][PrepareToPlayStep =>
          \A c \in {leftChain', rightChain'} :
            /\ c.history = 0
            /\ InstalledFrom(c, getChainSettings(apvts), sampleRate')]_vars
  /\ [][/\ (leftChain.history = 0 /\ leftChain'.history # 0)
             => audio.pc = "processLeft"
        /\ (rightChain.history = 0 /\ rightChain'.history # 0)
             => audio.pc = "processRight"]_vars
  /\ [](audio.pc \in {"processLeft", "processRight"} =>
          \A c \in {leftChain, rightChain} :
            \A slot \in Slots :
              ~c.bypassed[slot] => c.coefficients[slot].sampleRate = sampleRate)

\* the stream was restarted at another rate and its first block is about to
\* be processed: the delay lines are zero, and a stage enabled at the earlier
\* rate and bypassed since still holds the coefficients of that rate
C14_Witness ==
  /\ audio.pc = "processLeft"
  /\ sampleRate \in ResampleRates
  /\ leftChain.history = 0 /\ rightChain.history = 0
  /\ leftChain.bypassed[<<"LowCut", 1>>]
  /\ leftChain.coefficients[<<"LowCut", 1>>].sampleRate \in SampleRates


\* ----------------------------------------------------------------- C15
\* C15: no cross-chain mutation or sharing.  monoChain is written by
\* timerCallback alone, in a step that leaves leftChain and rightChain as they
\* are; leftChain and rightChain are written by updateFilters and the process
\* calls alone, in steps of processBlock or prepareToPlay that leave monoChain
\* as it is; paint writes no chain; and every stage of every chain keeps the
\* Coefficients object its filter made for itself, so no object a factory
\* returned is ever referred to by two chains.
C15_NoCrossChain ==
  /\ [](\A c \in {leftChain, rightChain, monoChain} :
          \A slot \in Slots : c.object[slot] = "own")
  /\ [][/\ monoChain' # monoChain =>
             /\ msg.op = "timer" /\ msg.pc = "install"
             /\ UNCHANGED <<leftChain, rightChain>>
        /\ <<leftChain, rightChain>>' # <<leftChain, rightChain>> =>
             /\ audio.pc \in {"install", "processLeft", "processRight"}
                  \/ PrepareToPlayStep
             /\ UNCHANGED monoChain
        /\ painted' # painted => UNCHANGED <<leftChain, rightChain, monoChain>>
       ]_vars

\* the timer has rebuilt monoChain from the same store the audio chains were
\* installed from, a block is being processed and the curve has been painted:
\* the three chains hold equal coefficient values
C15_Witness ==
  /\ audio.pc = "processRight"
  /\ painted.w > 0
  /\ monoChain # DefaultChain
  /\ monoChain.coefficients = leftChain.coefficients
  /\ leftChain.coefficients = rightChain.coefficients
  /\ leftChain.history # 0


\* ----------------------------------------------------------------- C16
\* C16: for every slope s and every bypass state the cascade is in before,
\* after updateCutFilter(chain, coefficients, s) stage i is enabled exactly
\* when i <= s.
C16_EnabledUpToSlope ==
  \A pos \in {"LowCut", "HighCut"} : \A s \in Stages :
    EnabledStages(cutFilterCall(monoChain, pos, s), pos) = {i \in Stages : i <= s}

\* a call with slope 1 has run on a cascade whose last stage an earlier call
\* with slope 3 had enabled
C16_Witness ==
  /\ EnabledStages(monoChain, "LowCut") = {0, 1}
  /\ monoChain.coefficients[<<"LowCut", 1>>].designOrder = CutOrder(Slope_24)
  /\ monoChain.coefficients[<<"LowCut", 3>>].designOrder = CutOrder(Slope_48)


\* ----------------------------------------------------------------- C17
\* C17: updateCutFilter with slope s leaves the stored coefficients of every
\* stage of its cascade with index > s as they were, and bypasses those
\* stages; it writes nothing outside its cascade.
C17_BypassedKeepCoefficients ==
  \A pos \in {"LowCut", "HighCut"} : \A s \in Stages :
    LET after == cutFilterCall(monoChain, pos, s)
    IN  /\ \A i \in Stages :
             i > s => /\ after.coefficients[<<pos, i>>]
                           = monoChain.coefficients[<<pos, i>>]
                      /\ after.bypassed[<<pos, i>>]
        /\ \A slot \in Slots :
             slot[1] # pos => /\ after.coefficients[slot] = monoChain.coefficients[slot]
                              /\ after.bypassed[slot] = monoChain.bypassed[slot]
        /\ after.history = monoChain.history

\* a call with slope 0 has run after one with slope 3: the first stage holds
\* the first-order design, stages 1 to 3 are bypassed and still hold the
\* sections of the seventh-order design
C17_Witness ==
  /\ EnabledStages(monoChain, "HighCut") = {0}
  /\ monoChain.coefficients[<<"HighCut", 0>>].designOrder = CutOrder(Slope_12)
  /\ \A i \in {1, 2, 3} :
       monoChain.coefficients[<<"HighCut", i>>].designOrder = CutOrder(Slope_48)

\* ----------------------------------------------------------------- C18
\* C18: the magnitude paint computes for a pixel is the product of the
\* magnitudes of exactly the stages of monoChain that are not bypassed, each
\* taken once from that stage's own coefficients; a bypassed stage adds no
\* factor, so it contributes 1.
C18_ProductOfEnabled ==
  [][painted' # painted =>
       /\ DOMAIN painted'.mags = 0 .. painted'.w - 1
       /\ \A i \in DOMAIN painted'.mags :
            LET factors == painted'.mags[i]
                enabled == {s \in Slots : ~monoChain.bypassed[s]}
            IN  /\ {factors[k].read : k \in DOMAIN factors} = enabled
                /\ Len(factors) = Cardinality(enabled)
                /\ \A k \in DOMAIN factors : factors[k].tested = factors[k].read
     ]_vars

\* the curve has been painted, more than one pixel wide, from a rebuilt
\* monoChain some of whose cut stages are bypassed
C18_Witness ==
  /\ painted.w > 1
  /\ monoChain # DefaultChain
  /\ monoChain.bypassed[<<"LowCut", 2>>]
  /\ ~monoChain.bypassed[<<"LowCut", 1>>]
  /\ Len(painted.mags[1]) = Cardinality({s \in Slots : ~monoChain.bypassed[s]})


\* ----------------------------------------------------------------- C19
\* C19: for a fixed cutoff and sample rate and any slopes n and m, calling
\* updateCutFilter with n, then m, then n again leaves the cascade with the
\* bypass flags, and in every enabled stage the coefficients, it had after
\* the first call.
C19_RoundTrip ==
  \A pos \in {"LowCut", "HighCut"} : \A n, m \in Stages :
    LET first == cutFilterCall(monoChain, pos, n)
        third == cutFilterCall(cutFilterCall(first, pos, m), pos, n)
    IN  /\ third.bypassed = first.bypassed
        /\ \A i \in EnabledStages(first, pos) :
             third.coefficients[<<pos, i>>] = first.coefficients[<<pos, i>>]

\* calls have run on the cascade, and from here a round trip through a
\* steeper slope comes back with other coefficients in a bypassed stage
C19_Witness ==
  /\ monoChain.coefficients[<<"LowCut", 0>>].kind = "highpass"
  /\ \E n, m \in Stages :
       /\ m > n
       /\ LET first == cutFilterCall(monoChain, "LowCut", n)
              third == cutFilterCall(cutFilterCall(first, "LowCut", m), "LowCut", n)
          IN  /\ third # first
              /\ third.bypassed = first.bypassed


\* ----------------------------------------------------------------- C20
\* C20: paint leaves every coefficient, bypass flag and delay line of
\* leftChain, rightChain and monoChain as it was, and what it computes depends
\* on the coefficients and bypass flags of monoChain alone: it is the same
\* whatever the delay lines of monoChain hold.
C20_PaintReadsOnly ==
  [][painted' # painted =>
       /\ UNCHANGED <<leftChain, rightChain, monoChain>>
       /\ \A h \in 0 .. MaxSample :
            painted' = paint([DefaultChain EXCEPT
                                !.coefficients = monoChain.coefficients,
                                !.bypassed = monoChain.bypassed,
                                !.history = h],
                             painted'.w, painted'.outcome)
     ]_vars

\* the curve has been painted from a rebuilt monoChain while the audio chains
\* hold the history of blocks processed with the steeper low cut
C20_Witness ==
  /\ painted.w > 0
  /\ monoChain # DefaultChain
  /\ painted.mags[0] = magnitudeFactors(leftChain)
  /\ leftChain.history # 0 /\ rightChain.history # 0
  /\ ~leftChain.bypassed[<<"LowCut", 1>>]
  /\ audio.pc = "idle"


\* ----------------------------------------------------------------- C21
\* C21 (as claimed): whenever parametersChanged is false and no timerCallback
\* is in progress (and no parameter change is between its store and its
\* notification), the coefficients and bypass flags of monoChain are those an
\* installation from the present content of the store leaves, from the
\* construction of the component on.
C21_MonoReflectsStore ==
  (host.pc = "idle" /\ ~parametersChanged /\ msg.op # "timer")
    => Reflects(monoChain, apvts)


\* ----------------------------------------------------------------- C22
\* C22 (as claimed): under every bus layout isBusesLayoutSupported accepts,
\* every channel index processBlock takes is smaller than the channel count of
\* the buffer it is given, and no process call runs past the buffer.
C22_ChannelsExist ==
  /\ audio.pc # "idle" => \A index \in ChannelsTaken : index < audio.channels
  /\ audio.pc # "fault"
  /\ rightChain.history \notin StraySamples


\* ----------------------------------------------------------------- C23
\* C23 (as claimed): whenever leftChain.process or rightChain.process runs,
\* leftChain and rightChain hold the same coefficients in all 9 slots and the
\* same bypass flags, both left by an installation of one ChainSettings
\* snapshot.
C23_LeftEqualsRight ==
  audio.pc \in {"processLeft", "processRight"} =>
    /\ leftChain.coefficients = rightChain.coefficients
    /\ leftChain.bypassed = rightChain.bypassed
    /\ \E store \in Stores :
         /\ InstalledFrom(leftChain, getChainSettings(store), sampleRate)
         /\ InstalledFrom(rightChain, getChainSettings(store), sampleRate)


\* ----------------------------------------------------------------- C24
\* the statements of updateCutFilter that read coefficients[i], for the array
\* its callers design for slope s, with the length of that array
CoefficientReads(pos, s) ==
  LET settings == getChainSettings(apvts)
      coefficients ==
        IF pos = "LowCut"
        THEN makeLowCutFilter([settings EXCEPT !.lowCutSlope = s], sampleRate)
        ELSE makeHighCutFilter([settings EXCEPT !.highCutSlope = s], sampleRate)
      stmts == updateCutFilter("monoChain", pos, coefficients, s)
  IN  {[index |-> stmts[k].slot[2], inRange |-> stmts[k].inRange,
        sections |-> Len(coefficients)] :
         k \in {j \in DOMAIN stmts : stmts[j].op = "updateCoefficients"}}

\* C24: for every slope s in 0..3, updateCutFilter reads coefficients[i] for
\* exactly i = 0..s, and every such i is smaller than the number of sections
\* the Butterworth design returns for the order its caller asks for; no stage
\* ever receives what lies past the end of the array.
C24_IndexInRange ==
  /\ \A pos \in {"LowCut", "HighCut"} : \A s \in Stages :
       /\ {r.index : r \in CoefficientReads(pos, s)} = 0 .. s
       /\ \A r \in CoefficientReads(pos, s) : r.index < r.sections /\ r.inRange
  /\ \A slot \in Slots : monoChain.coefficients[slot] # GarbageCoefficients

\* the steepest slope has been installed on both cascades: index 3, the
\* largest, was read from the four sections of the seventh-order designs
C24_Witness ==
  /\ \A pos \in {"LowCut", "HighCut"} :
       /\ EnabledStages(monoChain, pos) = Stages
       /\ monoChain.coefficients[<<pos, 3>>].index = 3
       /\ monoChain.coefficients[<<pos, 3>>].designOrder = CutOrder(Slope_48)
  /\ \E r \in CoefficientReads("LowCut", Slope_48) : r.index = 3 /\ r.sections = 4


\* ----------------------------------------------------------------- C25
\* C25 (as claimed): a setStateInformation whose data decodes to no valid
\* tree returns leaving the store, leftChain and rightChain as they were; one
\* whose data is valid replaces the store and, when it returns, both audio
\* chains hold what an installation of the snapshot it read from the restored
\* store leaves.
C25_RestoreOrNothing ==
  [][/\ (msg.op = "setState" /\ msg.pc = "read" /\ msg' # msg) =>
          IF msg.tree.valid
          THEN apvts' = SavedState(apvts)
          ELSE msg'.op = "none" /\ UNCHANGED <<apvts, leftChain, rightChain>>
     /\ (msg.op = "setState" /\ msg.pc = "install" /\ msg'.op = "none") =>
          /\ InstalledFrom(leftChain', msg.settings, sampleRate)
          /\ InstalledFrom(rightChain', msg.settings, sampleRate)
    ]_vars



\* C26: whenever paint evaluates the response (a component at least one pixel
\* wide), the sample rate it hands to getMagnitudeForFrequency is the rate
\* with which every designed coefficient set it evaluates (the enabled stages
\* of monoChain that no longer hold the pass-through default) was computed; in
\* particular after a prepareToPlay at another rate with no parameter change
C26_PaintAtDesignRate ==
  [][(painted' # painted /\ painted'.w > 0) =>
       \A s \in Slots :
         (~monoChain.bypassed[s]
            /\ monoChain.coefficients[s] # DefaultCoefficients) =>
           monoChain.coefficients[s].sampleRate = painted'.sampleRate
    ]_vars

====
